---- MODULE Spec2Model ----
(***************************************************************************)
(* Model of the metadata time-zone normalizer (src/main.py):               *)
(*   normalize_timestamp  - parse, localize, convert, re-serialize         *)
(*   process_image_file   - EXIF date tags of an image                     *)
(*   process_text_file    - date tokens of a text file                     *)
(*   main                 - existence check, dispatch by extension, exit   *)
(* Strings are sequences of one-character strings, so that parsing and     *)
(* formatting are computed character by character.                         *)
(***************************************************************************)
EXTENDS Integers, Sequences, FiniteSets, TLC

VARIABLES
    \* ---- normalize_timestamp called on its own (specification SpecNorm)
    npc,          \* "idle" | "parse" | "convert" | "done"
    timestamp,    \* the timestamp argument
    written,      \* how the argument was written: [layout, dt]; layout 0: free text
    source_timezone,
    target_timezone,
    dt_object,    \* result of the format loop: [ok, dt]
    nresult,      \* [kind: "pending" | "value" | "none" | "raised", val, exc]
    padYear,      \* platform: does strftime zero-pad %Y below 1000
    \* ---- one run of main (specification Spec)
    pc,           \* position in main / the processor
    args,         \* parsed command line: [ext, timezone, dry_run, verbose]
    disk,         \* the file: [exists, fault, kind, has_exif, tags, content]
    disk0,        \* the file as it was when main started
    exif_data,    \* in-memory tag set of process_image_file
    content,      \* decoded content of process_text_file
    updated_exif, \* staged tag values, keyed by tag id
    todo,         \* candidates not yet evaluated
    normalized_content,
    replacements, \* text replacement set
    calls,        \* number of normalize_timestamp calls made so far
    writes,       \* history: for every write, the number of calls made before it
    log,          \* log records, in order
    caught,       \* [at, exc]: the handler ("processor", "main") that caught exc
    exit_code     \* -1 while running

nvars == <<npc, timestamp, written, source_timezone, target_timezone, dt_object,
           nresult, padYear>>
mvars == <<pc, args, disk, disk0, exif_data, content, updated_exif, todo, normalized_content,
           replacements, calls, writes, log, caught, exit_code>>
vars == <<nvars, mvars>>

----------------------------------------------------------------------------
(* Characters and numbers                                                  *)

DigitChars == <<"0", "1", "2", "3", "4", "5", "6", "7", "8", "9">>
Digit == {DigitChars[i] : i \in 1..10}
\* str.split() and the \s of a compiled format: the whitespace of the model
Whitespace == {" ", "\t", "\n"}

DigitVal(c) == (CHOOSE i \in 1..10 : DigitChars[i] = c) - 1

RECURSIVE ToInt(_)
\* int() of a run of digits; int() ignores surrounding blanks
ToInt(s) ==
    IF Len(s) = 0 THEN 0
    ELSE IF s[1] = " " THEN ToInt(Tail(s))
    ELSE (ToInt(SubSeq(s, 1, Len(s) - 1)) * 10) + DigitVal(s[Len(s)])

Pad2(n) == <<DigitChars[((n \div 10) % 10) + 1], DigitChars[(n % 10) + 1]>>
Pad4(n) == Pad2(n \div 100) \o Pad2(n % 100)

RECURSIVE Unpadded(_)
\* decimal digits of n >= 0 without leading zeros
Unpadded(n) ==
    IF n < 10 THEN <<DigitChars[n + 1]>>
    ELSE Unpadded(n \div 10) \o <<DigitChars[(n % 10) + 1]>>

----------------------------------------------------------------------------
(* datetime: a naive date-time is <<year, month, day, hour, minute, second>> *)

MINYEAR == 1
MAXYEAR == 9999

IsLeap(y) == (y % 4 = 0) /\ ((y % 100 # 0) \/ (y % 400 = 0))

DaysInMonth(y, m) ==
    IF m = 2 THEN (IF IsLeap(y) THEN 29 ELSE 28)
    ELSE IF m \in {4, 6, 9, 11} THEN 30 ELSE 31

\* the datetime() constructor raises ValueError outside these ranges
ValidDateTime(t) ==
    /\ t[1] \in MINYEAR..MAXYEAR
    /\ t[2] \in 1..12
    /\ t[3] \in 1..DaysInMonth(t[1], t[2])
    /\ t[4] \in 0..23
    /\ t[5] \in 0..59
    /\ t[6] \in 0..59

\* datetime ordering
Before(a, b) ==
    \E k \in 1..6 : a[k] < b[k] /\ \A j \in 1..(k - 1) : a[j] = b[j]

NextDay(t) ==
    IF t[3] < DaysInMonth(t[1], t[2]) THEN <<t[1], t[2], t[3] + 1>>
    ELSE IF t[2] < 12 THEN <<t[1], t[2] + 1, 1>>
    ELSE <<t[1] + 1, 1, 1>>

PrevDay(t) ==
    IF t[3] > 1 THEN <<t[1], t[2], t[3] - 1>>
    ELSE IF t[2] > 1 THEN <<t[1], t[2] - 1, DaysInMonth(t[1], t[2] - 1)>>
    ELSE <<t[1] - 1, 12, 31>>

RECURSIVE ShiftDays(_, _)
ShiftDays(d, n) ==
    IF n = 0 THEN d
    ELSE IF n > 0 THEN ShiftDays(NextDay(d), n - 1)
    ELSE ShiftDays(PrevDay(d), n + 1)

\* the date d and second-of-day rest as a datetime, if the year is in range
WithDate(t, d, rest) ==
    IF d[1] \in MINYEAR..MAXYEAR
    THEN [ok |-> TRUE,
          dt |-> <<d[1], d[2], d[3], rest \div 3600, (rest \div 60) % 60, rest % 60>>]
    ELSE [ok |-> FALSE, dt |-> t]

\* total: seconds counted from the midnight of t; whole days carry into the date
Carry(t, total) ==
    WithDate(t, ShiftDays(<<t[1], t[2], t[3]>>, total \div 86400), total % 86400)

\* datetime + timedelta(seconds=delta): [ok, dt]; not ok is OverflowError
AddSeconds(t, delta) == Carry(t, (t[4] * 3600) + (t[5] * 60) + t[6] + delta)

----------------------------------------------------------------------------
(* datetime.strptime *)

Directives == {"%Y", "%m", "%d", "%H", "%M", "%S"}

AllDigits(s) == \A i \in 1..Len(s) : s[i] \in Digit

\* the regular expression of each directive, as a test on the matched text
DirAccepts(e, s) ==
    CASE e = "%Y" -> Len(s) = 4 /\ AllDigits(s)
      [] e = "%m" -> Len(s) \in {1, 2} /\ AllDigits(s) /\ ToInt(s) \in 1..12
      [] e = "%d" -> \/ Len(s) \in {1, 2} /\ AllDigits(s) /\ ToInt(s) \in 1..31
                     \/ Len(s) = 2 /\ s[1] = " " /\ s[2] \in Digit /\ s[2] # "0"
      [] e = "%H" -> Len(s) \in {1, 2} /\ AllDigits(s) /\ ToInt(s) \in 0..23
      [] e = "%M" -> Len(s) \in {1, 2} /\ AllDigits(s) /\ ToInt(s) \in 0..59
      [] e = "%S" -> Len(s) \in {1, 2} /\ AllDigits(s) /\ ToInt(s) \in 0..61

RECURSIVE MatchFrom(_, _, _, _)
\* every way format elements k.. match the whole of s from position i on:
\* the set of the directive values, in the order of the format
MatchFrom(fmt, k, s, i) ==
    IF k > Len(fmt) THEN (IF i = Len(s) + 1 THEN {<<>>} ELSE {})
    ELSE LET e == fmt[k] IN
         IF e \in Directives
         THEN UNION { { <<ToInt(SubSeq(s, i, i + n - 1))>> \o rest :
                           rest \in MatchFrom(fmt, k + 1, s, i + n) } :
                      n \in { m \in {1, 2, 4} : /\ i + m - 1 <= Len(s)
                                                /\ DirAccepts(e, SubSeq(s, i, i + m - 1)) } }
         ELSE IF e = " "
         THEN UNION { MatchFrom(fmt, k + 1, s, i + n) :
                      n \in { m \in 1..(Len(s) - i + 1) :
                                 \A j \in i..(i + m - 1) : s[j] \in Whitespace } }
         ELSE IF i <= Len(s) /\ s[i] = e THEN MatchFrom(fmt, k + 1, s, i + 1)
         ELSE {}

\* position of directive e among the directives of fmt
DirIndex(fmt, e) ==
    Cardinality({j \in 1..Len(fmt) : fmt[j] \in Directives /\
                     \E k \in j..Len(fmt) : fmt[k] = e /\ \A q \in j..(k - 1) : fmt[q] # e})

\* value of directive e in match m; a directive the format lacks takes its default
Field(fmt, m, e, default) ==
    IF \E j \in 1..Len(fmt) : fmt[j] = e THEN m[DirIndex(fmt, e)] ELSE default

\* the datetime() constructor on the parsed fields: [ok, dt]
Constructed(t) ==
    IF ValidDateTime(t) THEN [ok |-> TRUE, dt |-> t] ELSE [ok |-> FALSE, dt |-> <<>>]

\* the fields of match m; strptime's defaults are 1900-01-01 00:00:00
FieldsOf(fmt, m) ==
    <<Field(fmt, m, "%Y", 1900), Field(fmt, m, "%m", 1), Field(fmt, m, "%d", 1),
      Field(fmt, m, "%H", 0), Field(fmt, m, "%M", 0), Field(fmt, m, "%S", 0)>>

FromMatches(fmt, ms) ==
    IF ms = {} THEN [ok |-> FALSE, dt |-> <<>>]
    ELSE Constructed(FieldsOf(fmt, CHOOSE x \in ms : TRUE))

\* [ok, dt]; not ok is ValueError (no match, unconverted data, or a field out of range)
strptime(s, fmt) == FromMatches(fmt, MatchFrom(fmt, 1, s, 1))

TimeFormat == <<" ", "%H", ":", "%M", ":", "%S">>

\* the two slash formats with the day-first one tried first
formats_day_first ==
    << <<"%Y", ":", "%m", ":", "%d">> \o TimeFormat,
       <<"%Y", "-", "%m", "-", "%d">> \o TimeFormat,
       <<"%Y", "/", "%m", "/", "%d">> \o TimeFormat,
       <<"%d", "/", "%m", "/", "%Y">> \o TimeFormat,
       <<"%m", "/", "%d", "/", "%Y">> \o TimeFormat >>

\* a sixth format that accepts a date without a time
formats_with_date_only ==
    << <<"%Y", ":", "%m", ":", "%d">> \o TimeFormat,
       <<"%Y", "-", "%m", "-", "%d">> \o TimeFormat,
       <<"%Y", "/", "%m", "/", "%d">> \o TimeFormat,
       <<"%m", "/", "%d", "/", "%Y">> \o TimeFormat,
       <<"%d", "/", "%m", "/", "%Y">> \o TimeFormat,
       <<"%Y", "-", "%m", "-", "%d">> >>

formats_to_try ==
    << <<"%Y", ":", "%m", ":", "%d">> \o TimeFormat,
       <<"%Y", "-", "%m", "-", "%d">> \o TimeFormat,
       <<"%Y", "/", "%m", "/", "%d">> \o TimeFormat,
       <<"%m", "/", "%d", "/", "%Y">> \o TimeFormat,
       <<"%d", "/", "%m", "/", "%Y">> \o TimeFormat >>

Least(S) == CHOOSE h \in S : \A g \in S : h <= g

\* hits: the formats that parse s; the loop breaks at the first of them
FirstOf(s, fmts, hits) ==
    IF hits = {} THEN [ok |-> FALSE, dt |-> <<>>, fmt |-> 0]
    ELSE [ok |-> TRUE, dt |-> strptime(s, fmts[Least(hits)]).dt, fmt |-> Least(hits)]

\* the loop over formats_to_try: the first format that parses wins
ParseWithFormats(s, fmts) ==
    FirstOf(s, fmts, {k \in 1..Len(fmts) : strptime(s, fmts[k]).ok})

\* strftime("%Y:%m:%d %H:%M:%S"); pad: whether the C library zero-pads %Y
strftime(t, pad) ==
    (IF pad \/ t[1] >= 1000 THEN Pad4(t[1]) ELSE Unpadded(t[1]))
      \o <<":">> \o Pad2(t[2]) \o <<":">> \o Pad2(t[3]) \o <<" ">>
      \o Pad2(t[4]) \o <<":">> \o Pad2(t[5]) \o <<":">> \o Pad2(t[6])

----------------------------------------------------------------------------
(* pytz: the zones of the model.  A zone is its transition table, as pytz   *)
(* keeps it (_utc_transition_times, _transition_info): from instant `at`    *)
(* (UTC) on, local time is UTC + off seconds.  The America/New_York table   *)
(* is abridged to its first entry (local mean time) and the transitions of  *)
(* the years the inputs are drawn from; after the last entry pytz keeps     *)
(* the last offset.                                                        *)

EST == [off |-> -18000, dst |-> FALSE]
EDT == [off |-> -14400, dst |-> TRUE]
LMT == [off |-> -17762, dst |-> FALSE]

Entry(at, inf) == [at |-> at, off |-> inf.off, dst |-> inf.dst]

NewYork ==
    << Entry(<<1, 1, 1, 0, 0, 0>>, LMT),
       Entry(<<2022, 11, 6, 6, 0, 0>>, EST),
       Entry(<<2023, 3, 12, 7, 0, 0>>, EDT),
       Entry(<<2023, 11, 5, 6, 0, 0>>, EST),
       Entry(<<2024, 3, 10, 7, 0, 0>>, EDT),
       Entry(<<2024, 11, 3, 6, 0, 0>>, EST) >>

KnownZones == {"UTC", "America/New_York"}

\* pytz.timezone(name): a name outside the database is UnknownTimeZoneError
ZoneKnown(name) == name \in KnownZones

\* the offset now in force, whatever the date
InfoAtCurrent(tr, t) == tr[Len(tr)]

\* bisect_right(_utc_transition_times, t) - 1, at least 0: the entry in force at t
InfoAt(tr, t) ==
    tr[Least({n \in 1..Len(tr) : n = Len(tr) \/ Before(t, tr[n + 1].at)})]

OverflowError == [ok |-> FALSE, dt |-> <<>>, off |-> 0, hit |-> FALSE]

\* u + inf.off, labelled with inf
Shifted(r, inf) == [ok |-> r.ok, dt |-> r.dt, inf |-> inf]
ShiftBy(u, inf) == Shifted(AddSeconds(u, inf.off), inf)

\* DstTzInfo.fromutc: [ok, dt, inf]; not ok is OverflowError
DstFromUtc(tr, u) == ShiftBy(u, InfoAt(tr, u))

\* the end of a probe: n is normalize() of dt under the probed entry
ProbeResult(dt, n) ==
    IF ~n.ok THEN OverflowError
    ELSE [ok |-> TRUE, hit |-> (n.dt = dt), inf |-> n.inf]

ProbeUtc(tr, dt, u) ==
    IF ~u.ok THEN OverflowError ELSE ProbeResult(dt, DstFromUtc(tr, u.dt))

ProbeAt(tr, dt, loc) ==
    IF ~loc.ok THEN OverflowError
    ELSE ProbeUtc(tr, dt, AddSeconds(dt, 0 - InfoAt(tr, loc.dt).off))

\* one probe of DstTzInfo.localize (delta is a day back or a day forward):
\* [ok, hit, inf]; hit: the entry in force at dt + delta gives back dt as local time
LocalizeProbe(tr, dt, delta) == ProbeAt(tr, dt, AddSeconds(dt, delta))

\* several entries fit (a local time the zone has twice): is_dst=False keeps the
\* standard-time one, or else the latest instant (the smallest offset)
Ambiguous(possible, standard) ==
    IF Cardinality(standard) = 1
    THEN [ok |-> TRUE, off |-> (CHOOSE i \in standard : TRUE).off]
    ELSE [ok |-> TRUE,
          off |-> (CHOOSE i \in possible : \A j \in possible : i.off <= j.off).off]

RECURSIVE DstLocalize(_, _)

\* no entry fits (a local time the zone skips): localize six hours earlier
Skipped(tr, back) ==
    IF back.ok THEN DstLocalize(tr, back.dt) ELSE OverflowError

Decide(tr, dt, possible) ==
    IF Cardinality(possible) = 1
    THEN [ok |-> TRUE, off |-> (CHOOSE i \in possible : TRUE).off]
    ELSE IF possible = {} THEN Skipped(tr, AddSeconds(dt, -21600))
    ELSE Ambiguous(possible, {i \in possible : ~i.dst})

Probed(tr, dt, a, b) ==
    IF ~a.ok \/ ~b.ok THEN OverflowError
    ELSE Decide(tr, dt, {p.inf : p \in {q \in {a, b} : q.hit}})

\* DstTzInfo.localize(dt, is_dst=False): [ok, off]; not ok is OverflowError
DstLocalize(tr, dt) ==
    Probed(tr, dt, LocalizeProbe(tr, dt, -86400), LocalizeProbe(tr, dt, 86400))

\* tz.localize(dt): [ok, off], off the UTC offset attached to dt
Localize(zone, dt) ==
    IF zone = "UTC" THEN [ok |-> TRUE, off |-> 0] ELSE DstLocalize(NewYork, dt)

\* tz.fromutc(u), u the result of localized - utcoffset
FromUtc(u, zone) ==
    IF ~u.ok THEN OverflowError
    ELSE IF zone = "UTC" THEN u
    ELSE DstFromUtc(NewYork, u.dt)

\* localized.astimezone(tz): [ok, dt]; not ok is OverflowError
AsTimezone(dt, off, zone) == FromUtc(AddSeconds(dt, 0 - off), zone)

----------------------------------------------------------------------------
(* normalize_timestamp *)

Value(s)  == [kind |-> "value", val |-> s, exc |-> "none"]
None      == [kind |-> "none", val |-> <<>>, exc |-> "none"]
Raised(e) == [kind |-> "raised", val |-> <<>>, exc |-> e]
Pending   == [kind |-> "pending", val |-> <<>>, exc |-> "none"]

\* line 63
Formatted(utc_dt, pad) ==
    IF ~utc_dt.ok THEN Raised("OverflowError") ELSE Value(strftime(utc_dt.dt, pad))

\* lines 59-63
Localized(dt, localized_dt, tgt, pad) ==
    IF ~localized_dt.ok THEN Raised("OverflowError")
    ELSE IF ~ZoneKnown(tgt) THEN Raised("UnknownTimeZoneError")
    ELSE Formatted(AsTimezone(dt, localized_dt.off, tgt), pad)

\* lines 54-63 without the handlers: the value, or the exception raised
ConvertBody(dt, src, tgt, pad) ==
    IF ~ZoneKnown(src) THEN Raised("UnknownTimeZoneError")
    ELSE Localized(dt, Localize(src, dt), tgt, pad)

\* only the handler of UnknownTimeZoneError
HandlersOnlyTimeZone(r) ==
    IF r.kind = "raised" /\ r.exc = "UnknownTimeZoneError" THEN None ELSE r

\* lines 65-70: both handlers log and return None
Handlers(r) ==
    IF r.kind = "raised" /\ r.exc = "UnknownTimeZoneError" THEN None
    ELSE IF r.kind = "raised" THEN None
    ELSE r

Convert(dt, src, tgt, pad) == Handlers(ConvertBody(dt, src, tgt, pad))

\* lines 49-51, then the conversion
Parsed(p, src, tgt, pad) ==
    IF ~p.ok THEN None ELSE Convert(p.dt, src, tgt, pad)

normalize_timestamp(ts, src, tgt, pad) ==
    Parsed(ParseWithFormats(ts, formats_to_try), src, tgt, pad)

----------------------------------------------------------------------------
(* Inputs of normalize_timestamp *)

\* the five layouts of the specification, zero-padded, as a writer produces them
Render(k, t) ==
    LET sep  == IF k = 1 THEN <<":">> ELSE IF k = 2 THEN <<"-">> ELSE <<"/">>
        date == IF k \in {1, 2, 3} THEN Pad4(t[1]) \o sep \o Pad2(t[2]) \o sep \o Pad2(t[3])
                ELSE IF k = 4 THEN Pad2(t[2]) \o sep \o Pad2(t[3]) \o sep \o Pad4(t[1])
                ELSE Pad2(t[3]) \o sep \o Pad2(t[2]) \o sep \o Pad4(t[1])
    IN  date \o <<" ">> \o Pad2(t[4]) \o <<":">> \o Pad2(t[5]) \o <<":">> \o Pad2(t[6])

Layouts == 1..5

SampleDates ==
    << <<2023, 6, 15, 12, 0, 0>>,       \* the example of the specification (EDT)
       <<2023, 3, 4, 10, 0, 0>>,        \* 03/04: month and day both <= 12
       <<2023, 4, 13, 10, 0, 0>>,       \* 13/04 can only be day/month
       <<2023, 1, 15, 3, 30, 0>>,       \* EST, the day before in New York
       <<2023, 12, 31, 22, 0, 0>>,      \* the year after, from New York to UTC
       <<2024, 3, 1, 2, 0, 5>>,         \* 29 February in New York
       <<2023, 3, 12, 2, 30, 0>>,       \* a local time New York skips
       <<2023, 11, 5, 1, 30, 0>>,       \* a local time New York has twice
       <<2023, 3, 12, 7, 0, 0>>,        \* the instant of a transition
       <<1, 1, 1, 0, 0, 0>>,            \* datetime.min
       <<9999, 12, 31, 23, 59, 59>>,    \* datetime.max
       <<999, 6, 15, 12, 0, 0>>,        \* a year below 1000
       <<9999, 12, 31, 0, 0, 0>>,
       <<2024, 11, 3, 5, 59, 59>> >>

NumSamples == 13

Samples == {SampleDates[i] : i \in 1..NumSamples}

NotADate == <<"n", "o", "t", "-", "a", "-", "d", "a", "t", "e">>

\* timestamps that are in none of the five layouts, or hold no date
FreeTexts ==
    LET t == SampleDates[1]
        c == Render(1, t)
    IN  { NotADate,
          <<>>,
          SubSeq(Render(2, t), 1, 10),                      \* date only
          c \o <<" ">>,                                     \* trailing blank
          <<" ">> \o c,
          SubSeq(c, 1, 10) \o <<" ", " ">> \o SubSeq(c, 12, 19),
          SubSeq(c, 1, 10) \o <<"\t">> \o SubSeq(c, 12, 19),
          SubSeq(c, 1, 10) \o <<"T">> \o SubSeq(c, 12, 19),
          Render(1, <<2023, 6, 5, 1, 2, 3>>),
          <<"2", "0", "2", "3", ":", "6", ":", "5", " ", "1", ":", "2", ":", "3">>,
          <<"2", "0", "2", "3", ":", "0", "6", ":", " ", "5", " ", "1", ":", "2", ":", "3">>,
          Render(1, <<2023, 2, 29, 10, 0, 0>>),             \* no such day
          Render(4, <<2023, 2, 30, 10, 0, 0>>),
          Render(5, <<2023, 4, 31, 10, 0, 0>>),
          Render(1, <<2023, 6, 15, 12, 0, 60>>),
          Render(2, <<2023, 6, 15, 24, 0, 0>>),
          Render(1, <<0, 0, 0, 0, 0, 0>>),                  \* the EXIF placeholder
          Render(4, <<2023, 0, 5, 10, 0, 0>>),
          Render(3, <<2023, 13, 1, 10, 0, 0>>) }

TZNames == KnownZones \cup {"Mars/Phobos"}

\* the abridged New York table holds no entry for the years 2..2021
InTable(t, src, tgt) ==
    t[1] \in 2..2021 => "America/New_York" \notin {src, tgt}

NoFile ==
    [exists |-> FALSE, fault |-> "none", kind |-> "none", has_exif |-> FALSE,
     tags |-> <<>>, content |-> <<>>]

NotCaught == [at |-> "none", exc |-> "none"]

IdleMain ==
    /\ pc = "idle"
    /\ args = [ext |-> "", timezone |-> "UTC", dry_run |-> FALSE, verbose |-> FALSE]
    /\ disk = NoFile
    /\ disk0 = NoFile
    /\ exif_data = <<>>
    /\ content = <<>>
    /\ updated_exif = <<>>
    /\ todo = <<>>
    /\ normalized_content = <<>>
    /\ replacements = <<>>
    /\ calls = 0
    /\ writes = <<>>
    /\ log = <<>>
    /\ caught = NotCaught
    /\ exit_code = -1

InitNorm ==
    /\ npc = "parse"
    /\ \/ \E k \in Layouts, t \in Samples :
             /\ timestamp = Render(k, t)
             /\ written = [layout |-> k, dt |-> t]
       \/ /\ timestamp \in FreeTexts
          /\ written = [layout |-> 0, dt |-> <<>>]
    /\ source_timezone \in TZNames
    /\ target_timezone \in TZNames
    /\ written.layout # 0 => InTable(written.dt, source_timezone, target_timezone)
    /\ dt_object = [ok |-> FALSE, dt |-> <<>>, fmt |-> 0]
    /\ nresult = Pending
    /\ padYear \in BOOLEAN
    /\ IdleMain

\* lines 41-51: the format loop; no format parsing returns None
ParseStep ==
    /\ npc = "parse"
    /\ dt_object' = ParseWithFormats(timestamp, formats_to_try)
    /\ IF dt_object'.ok
       THEN npc' = "convert" /\ nresult' = nresult
       ELSE npc' = "done" /\ nresult' = None
    /\ UNCHANGED <<timestamp, written, source_timezone, target_timezone, padYear, mvars>>

\* lines 54-70: localize, convert, format, under the two handlers
ConvertStep ==
    /\ npc = "convert"
    /\ nresult' = Convert(dt_object.dt, source_timezone, target_timezone, padYear)
    /\ npc' = "done"
    /\ UNCHANGED <<timestamp, written, source_timezone, target_timezone, dt_object,
                   padYear, mvars>>

NextNorm == ParseStep \/ ConvertStep

SpecNorm == InitNorm /\ [][NextNorm]_vars

----------------------------------------------------------------------------
(* Logging and the handlers at the processor boundary *)

Rec(level, msg, data) == [level |-> level, msg |-> msg, data |-> data]

\* the exception classes of the model that derive from OSError
OSErrors == {"FileNotFoundError", "OSError", "UnidentifiedImageError"}

\* lines 121-126: every Exception is caught and logged; nothing is re-raised
ImageHandlers(exc) ==
    [caught |-> [at |-> "processor", exc |-> exc],
     rec |-> IF exc = "FileNotFoundError" THEN Rec("error", "File not found", <<>>)
             ELSE IF exc \in OSErrors
             THEN Rec("error", "Error opening or processing file", <<>>)
             ELSE Rec("error", "An unexpected error occurred while processing", <<>>)]

\* lines 183-188
TextHandlers(exc) ==
    [caught |-> [at |-> "processor", exc |-> exc],
     rec |-> IF exc = "FileNotFoundError" THEN Rec("error", "File not found", <<>>)
             ELSE IF exc = "UnicodeDecodeError" THEN Rec("error", "UnicodeDecodeError", <<>>)
             ELSE Rec("error", "Error processing text file", <<>>)]

----------------------------------------------------------------------------
(* process_image_file *)

\* ExifTags.TAGS.get(tag_id, tag_id), for the tag ids of the model
TagName(tag_id) ==
    CASE tag_id = 306   -> "DateTime"
      [] tag_id = 36867 -> "DateTimeOriginal"
      [] tag_id = 36868 -> "DateTimeDigitized"
      [] tag_id = 271   -> "Make"
      [] OTHER          -> "unnamed"

DateTags == {"DateTime", "DateTimeOriginal", "DateTimeDigitized"}

Put(d, k, v) == (k :> v) @@ d

\* lines 99-103: a normalized value is staged under the tag id, a failure is not
StageTag(staged, tag_id, r) ==
    IF r.kind = "value" THEN Put(staged, tag_id, r.val) ELSE staged

\* lines 108-109: the staged values replace the values of their tag ids
ApplyStaged(tags, staged) ==
    [i \in 1..Len(tags) |->
        IF tags[i].id \in DOMAIN staged
        THEN [id |-> tags[i].id, val |-> staged[tags[i].id]]
        ELSE tags[i]]

\* a loop that stops at the first tag that fails to normalize
RemainingTagsBreak(tags, r) == IF r.kind = "none" THEN <<>> ELSE Tail(tags)

\* the for loop of line 91 goes on to the next tag whatever the result was
RemainingTags(tags, r) == Tail(tags)

\* a loop body that rewrites the file each time it has staged a value
FileWrittenInLoop(d, staged) == [d EXCEPT !.tags = ApplyStaged(d.tags, staged)]

\* lines 92-103: the loop body stages values in memory; the file d stays as it is
FileDuringLoop(d, staged) == d

\* the test of the flag the wrong way round
WritesBackInverted(dry_run) == dry_run

\* lines 106 and 173: `if not dry_run` guards the write
WritesBack(dry_run) == ~dry_run

\* line 112: Image.ExifTags.ExifTag.string_to_bytes(...dict_to_bytes(exif_data)).
\* Pillow's ExifTags module has no attribute ExifTag (it holds TAGS, GPSTAGS, Base,
\* GPS, Interop, IFD, LightSource), so evaluating the expression raises
\* AttributeError before any bytes exist.
ExifToBytes(tags) == [ok |-> FALSE, exc |-> "AttributeError", tags |-> tags]

\* line 113: img.save(file_path, exif=new_exif) rewrites the file with the new tags
Save(d, new_exif) == [d EXCEPT !.tags = new_exif.tags]

LogTag(verbose, tag, value, r, tz) ==
    (IF verbose THEN <<Rec("info", "Processing tag", <<tag, value>>)>> ELSE <<>>)
    \o (IF tag \notin DateTags THEN <<>>
        ELSE IF r.kind = "value" THEN <<Rec("info", "Normalized", <<tag, value, r.val, tz>>)>>
        ELSE <<Rec("warning", "Failed to normalize", <<tag, value>>)>>)

\* lines 83-90: open the image and read its EXIF dictionary
ImgOpen ==
    /\ pc = "img_open"
    /\ LET exc == IF disk.fault # "none" THEN disk.fault
                  ELSE IF disk.kind # "jpeg" THEN "UnidentifiedImageError"
                  ELSE "none"
       IN  IF exc # "none"
           THEN /\ caught' = ImageHandlers(exc).caught
                /\ log' = Append(log, ImageHandlers(exc).rec)
                /\ pc' = "return"
                /\ UNCHANGED <<exif_data, updated_exif, todo>>
           ELSE IF ~disk.has_exif
           THEN /\ log' = Append(log, Rec("warning", "No EXIF data found", <<>>))
                /\ pc' = "return"
                /\ UNCHANGED <<caught, exif_data, updated_exif, todo>>
           ELSE /\ exif_data' = disk.tags
                /\ updated_exif' = <<>>
                /\ todo' = disk.tags
                /\ pc' = "img_loop"
                /\ UNCHANGED <<caught, log>>
    /\ UNCHANGED <<args, disk, disk0, content, normalized_content, replacements, calls,
                   writes, exit_code, nvars>>

\* lines 91-103: one iteration of the loop over the tags
ImgTag ==
    /\ pc = "img_loop"
    /\ todo # <<>>
    /\ \E tag_id \in {Head(todo).id}, value \in {Head(todo).val} :
       \E tag \in {TagName(tag_id)} :
       \E r \in {IF tag \in DateTags
                 THEN normalize_timestamp(value, "UTC", args.timezone, padYear)
                 ELSE Pending} :
           /\ calls' = IF tag \in DateTags THEN calls + 1 ELSE calls
           /\ updated_exif' = IF tag \in DateTags THEN StageTag(updated_exif, tag_id, r)
                              ELSE updated_exif
           /\ log' = log \o LogTag(args.verbose, tag, value, r, args.timezone)
           /\ todo' = RemainingTags(todo, r)
           /\ disk' = FileDuringLoop(disk, updated_exif')
    /\ UNCHANGED <<pc, args, disk0, exif_data, content, normalized_content,
                   replacements, writes, caught, exit_code, nvars>>

\* lines 105-118 and the handlers of lines 121-126
ImgFinish ==
    /\ pc = "img_loop"
    /\ todo = <<>>
    /\ pc' = "return"
    /\ IF DOMAIN updated_exif # {}
       THEN IF WritesBack(args.dry_run)
            THEN LET updated  == ApplyStaged(exif_data, updated_exif)
                     new_exif == ExifToBytes(updated)
                 IN  /\ exif_data' = updated
                     /\ IF new_exif.ok
                        THEN /\ disk' = Save(disk, new_exif)
                             /\ writes' = Append(writes, calls)
                             /\ log' = Append(log, Rec("info", "Successfully updated EXIF data", <<>>))
                             /\ caught' = caught
                        ELSE /\ caught' = ImageHandlers(new_exif.exc).caught
                             /\ log' = Append(log, ImageHandlers(new_exif.exc).rec)
                             /\ UNCHANGED <<disk, writes>>
            ELSE /\ log' = Append(log, Rec("info", "Dry run: EXIF data would be updated",
                                           updated_exif))
                 /\ UNCHANGED <<disk, writes, caught, exif_data>>
       ELSE /\ log' = Append(log, Rec("info", "No DateTime related EXIF data found or updated", <<>>))
            /\ UNCHANGED <<disk, writes, caught, exif_data>>
    /\ UNCHANGED <<args, disk0, content, updated_exif, todo, normalized_content,
                   replacements, calls, exit_code, nvars>>

----------------------------------------------------------------------------
(* process_text_file *)

RECURSIVE Words(_)
\* the tokens of content: line.split() over content.splitlines()
Words(s) ==
    IF s = <<>> THEN <<>>
    ELSE IF s[1] \in Whitespace THEN Words(Tail(s))
    ELSE LET ends == {n \in 1..Len(s) : n = Len(s) \/ s[n + 1] \in Whitespace}
             n    == CHOOSE e \in ends : \A f \in ends : e <= f
         IN  <<SubSeq(s, 1, n)>> \o Words(SubSeq(s, n + 1, Len(s)))

\* line 157: the format a token must parse under to become a candidate
CandidateFormat == <<"%Y", "-", "%m", "-", "%d">>

\* lines 152-160: the tokens that parse as a date, in order, repeats kept
potential_timestamps(s) ==
    SelectSeq(Words(s), LAMBDA word : strptime(word, CandidateFormat).ok)

RECURSIVE Replace(_, _, _)
\* str.replace(old, new), old not empty: every occurrence, left to right
Replace(s, old, new) ==
    IF Len(s) < Len(old) THEN s
    ELSE IF SubSeq(s, 1, Len(old)) = old
    THEN new \o Replace(SubSeq(s, Len(old) + 1, Len(s)), old, new)
    ELSE <<s[1]>> \o Replace(Tail(s), old, new)

\* lines 142-147: read the bytes, detect the encoding, decode
TxtOpen ==
    /\ pc = "txt_open"
    /\ LET exc == IF disk.fault # "none" THEN disk.fault
                  ELSE IF disk.kind # "text" THEN "UnicodeDecodeError"
                  ELSE "none"
       IN  IF exc # "none"
           THEN /\ caught' = TextHandlers(exc).caught
                /\ log' = Append(log, TextHandlers(exc).rec)
                /\ pc' = "return"
                /\ UNCHANGED content
           ELSE /\ content' = disk.content
                /\ pc' = "txt_scan"
                /\ UNCHANGED <<caught, log>>
    /\ UNCHANGED <<args, disk, disk0, exif_data, updated_exif, todo, normalized_content,
                   replacements, calls, writes, exit_code, nvars>>

\* lines 152-163: collect the candidates
TxtScan ==
    /\ pc = "txt_scan"
    /\ todo' = potential_timestamps(content)
    /\ normalized_content' = content
    /\ replacements' = <<>>
    /\ pc' = "txt_loop"
    /\ UNCHANGED <<args, disk, disk0, exif_data, content, updated_exif, calls, writes,
                   log, caught, exit_code, nvars>>

\* lines 165-170: one iteration of the loop over the candidates
TxtCandidate ==
    /\ pc = "txt_loop"
    /\ todo # <<>>
    /\ \E ts \in {Head(todo)} :
       \E r \in {normalize_timestamp(ts, "UTC", args.timezone, padYear)} :
           /\ calls' = calls + 1
           /\ IF r.kind = "value"
              THEN /\ replacements' = Put(replacements, ts, r.val)
                   /\ normalized_content' = Replace(normalized_content, ts, r.val)
                   /\ log' = Append(log, Rec("info", "Normalized timestamp",
                                             <<ts, r.val, args.timezone>>))
              ELSE UNCHANGED <<replacements, normalized_content, log>>
           /\ todo' = Tail(todo)
    /\ UNCHANGED <<pc, args, disk, disk0, exif_data, content, updated_exif, writes,
                   caught, exit_code, nvars>>

\* lines 172-180: write the content back, or log
TxtFinish ==
    /\ pc = "txt_loop"
    /\ todo = <<>>
    /\ pc' = "return"
    /\ IF DOMAIN replacements # {}
       THEN IF WritesBack(args.dry_run)
            THEN /\ disk' = [disk EXCEPT !.content = normalized_content]
                 /\ writes' = Append(writes, calls)
                 /\ log' = Append(log, Rec("info", "Successfully normalized timestamps", <<>>))
            ELSE /\ log' = Append(log, Rec("info", "Dry run: timestamps would be normalized",
                                           replacements))
                 /\ UNCHANGED <<disk, writes>>
       ELSE /\ log' = Append(log, Rec("info", "No recognizable timestamps found or updated", <<>>))
            /\ UNCHANGED <<disk, writes>>
    /\ UNCHANGED <<args, disk0, exif_data, content, updated_exif, todo, normalized_content,
                   replacements, calls, caught, exit_code, nvars>>

----------------------------------------------------------------------------
(* main *)

ImageExtensions == {".jpg", ".jpeg", ".png", ".tiff", ".tif"}
TextExtensions  == {".txt", ".log", ".csv", ".json", ".xml"}

\* a main that never calls sys.exit(1)
ExitStatusZero(exists, escaped) == 0

\* sys.exit(1) of lines 206 and 220; falling off the end of main is status 0
ExitStatus(exists, escaped) == IF ~exists \/ escaped THEN 1 ELSE 0

\* lines 204-206: a path that does not exist ends the run
MainCheckExists ==
    /\ pc = "start"
    /\ IF ~disk.exists
       THEN /\ log' = Append(log, Rec("error", "File not found", <<>>))
            /\ exit_code' = ExitStatus(FALSE, FALSE)
            /\ pc' = "exited"
       ELSE /\ pc' = "dispatch"
            /\ UNCHANGED <<log, exit_code>>
    /\ UNCHANGED <<args, disk, disk0, exif_data, content, updated_exif, todo,
                   normalized_content, replacements, calls, writes, caught, nvars>>

\* lines 210-216: the extension picks the processor
MainDispatch ==
    /\ pc = "dispatch"
    /\ IF args.ext \in ImageExtensions THEN pc' = "img_open" /\ log' = log
       ELSE IF args.ext \in TextExtensions THEN pc' = "txt_open" /\ log' = log
       ELSE /\ pc' = "return"
            /\ log' = Append(log, Rec("warning", "Unsupported file type", <<>>))
    /\ UNCHANGED <<args, disk, disk0, exif_data, content, updated_exif, todo,
                   normalized_content, replacements, calls, writes, caught, exit_code, nvars>>

\* lines 218-220 and the end of main
MainExit ==
    /\ pc = "return"
    /\ exit_code' = ExitStatus(TRUE, caught.at = "main")
    /\ pc' = "exited"
    /\ UNCHANGED <<args, disk, disk0, exif_data, content, updated_exif, todo,
                   normalized_content, replacements, calls, writes, log, caught, nvars>>

----------------------------------------------------------------------------
(* The files and command lines of the model *)

MaxTags == 3
MaxWords == 3

TagIds == {306, 36867, 36868, 271}

TagValues(tag_id) ==
    IF TagName(tag_id) \in DateTags
    THEN {Render(1, SampleDates[1]), Render(4, SampleDates[2]), NotADate}
    ELSE {<<"C", "a", "n", "o", "n">>}

RECURSIVE TagSetsOfLen(_)
\* EXIF dictionaries with n tags, in every order of the tag ids
TagSetsOfLen(n) ==
    IF n = 0 THEN {<<>>}
    ELSE { Append(ts, [id |-> i, val |-> v]) :
             ts \in TagSetsOfLen(n - 1), i \in TagIds, v \in UNION {TagValues(j) : j \in TagIds} }

WellFormedTags(ts) ==
    /\ \A i, j \in 1..Len(ts) : i # j => ts[i].id # ts[j].id
    /\ \A i \in 1..Len(ts) : ts[i].val \in TagValues(ts[i].id)

TagSets ==
    UNION { {ts \in TagSetsOfLen(n) : WellFormedTags(ts)} : n \in 0..(IF MaxTags < 4 THEN MaxTags ELSE 4) }

TextWords ==
    { SubSeq(Render(2, SampleDates[1]), 1, 10),          \* 2023-06-15
      <<"2", "0", "2", "3", "-", "6", "-", "5">>,
      SubSeq(Render(1, SampleDates[1]), 12, 19) }        \* 12:00:00

RECURSIVE WordSeqs(_)
WordSeqs(n) ==
    IF n = 0 THEN {<<>>}
    ELSE {Append(ws, w) : ws \in WordSeqs(n - 1), w \in TextWords}

RECURSIVE Join(_, _)
Join(ws, sep) ==
    IF ws = <<>> THEN <<>>
    ELSE IF Len(ws) = 1 THEN ws[1]
    ELSE ws[1] \o <<sep>> \o Join(Tail(ws), sep)

Contents ==
    {Join(ws, sep) : ws \in UNION {WordSeqs(n) : n \in 0..MaxWords}, sep \in {" ", "\n"}}

Faults == {"none", "FileNotFoundError", "OSError"}

ImageFile(f, ts) ==
    [exists |-> TRUE, fault |-> f, kind |-> "jpeg", has_exif |-> TRUE, tags |-> ts,
     content |-> <<>>]

TextFile(f, c) ==
    [exists |-> TRUE, fault |-> f, kind |-> "text", has_exif |-> FALSE, tags |-> <<>>,
     content |-> c]

\* a file that cannot be opened is never read: short files are enough for the faults
ImageFiles ==
    {ImageFile("none", ts) : ts \in TagSets}
    \cup {ImageFile(f, ts) : f \in Faults \ {"none"}, ts \in {t \in TagSets : Len(t) <= 1}}
    \cup {[exists |-> TRUE, fault |-> "none", kind |-> k, has_exif |-> FALSE, tags |-> <<>>,
           content |-> <<>>] : k \in {"jpeg", "text"}}

TextFiles ==
    {TextFile("none", c) : c \in Contents}
    \cup {TextFile(f, c) : f \in Faults \ {"none"}, c \in {x \in Contents : Len(Words(x)) <= 1}}
    \cup {[exists |-> TRUE, fault |-> "none", kind |-> "binary", has_exif |-> FALSE,
           tags |-> <<>>, content |-> <<>>]}

IdleNorm ==
    /\ npc = "idle"
    /\ timestamp = <<>>
    /\ written = [layout |-> 0, dt |-> <<>>]
    /\ source_timezone = "UTC"
    /\ target_timezone = "UTC"
    /\ dt_object = [ok |-> FALSE, dt |-> <<>>, fmt |-> 0]
    /\ nresult = Pending

Init ==
    /\ IdleNorm
    /\ padYear \in BOOLEAN
    /\ pc = "start"
    /\ \E ext \in {".jpg", ".txt", ".pdf"}, tz \in TZNames, dry \in BOOLEAN, v \in BOOLEAN :
          args = [ext |-> ext, timezone |-> tz, dry_run |-> dry, verbose |-> v]
    /\ \/ disk = NoFile
       \/ args.ext = ".jpg" /\ disk \in ImageFiles
       \/ args.ext = ".txt" /\ disk \in TextFiles
       \/ args.ext = ".pdf" /\ disk \in {d \in TextFiles : d.fault = "none" /\ Len(d.content) <= 2}
    /\ disk0 = disk
    /\ exif_data = <<>>
    /\ content = <<>>
    /\ updated_exif = <<>>
    /\ todo = <<>>
    /\ normalized_content = <<>>
    /\ replacements = <<>>
    /\ calls = 0
    /\ writes = <<>>
    /\ log = <<>>
    /\ caught = NotCaught
    /\ exit_code = -1

Next ==
    \/ MainCheckExists
    \/ MainDispatch
    \/ ImgOpen
    \/ ImgTag
    \/ ImgFinish
    \/ TxtOpen
    \/ TxtScan
    \/ TxtCandidate
    \/ TxtFinish
    \/ MainExit

Spec == Init /\ [][Next]_vars

----------------------------------------------------------------------------
(* What the properties are measured against *)

ExampleInput ==
    <<"2", "0", "2", "3", ":", "0", "6", ":", "1", "5", " ",
      "1", "2", ":", "0", "0", ":", "0", "0">>
ExampleOutput ==
    <<"2", "0", "2", "3", ":", "0", "6", ":", "1", "5", " ",
      "0", "8", ":", "0", "0", ":", "0", "0">>
AmbiguousInput ==
    <<"0", "3", "/", "0", "4", "/", "2", "0", "2", "3", " ",
      "1", "0", ":", "0", "0", ":", "0", "0">>
DateOnlyToken == <<"2", "0", "2", "3", "-", "0", "6", "-", "1", "5">>

\* day of the week of a civil date, 0 for Sunday
DayOfWeek(y, m, d) ==
    LET yy == IF m < 3 THEN y - 1 ELSE y
        t  == <<0, 3, 2, 5, 0, 3, 5, 1, 4, 6, 2, 4>>
    IN  (yy + (yy \div 4) - (yy \div 100) + (yy \div 400) + t[m] + d) % 7

NthSunday(y, m, n) ==
    CHOOSE d \in 1..31 : DayOfWeek(y, m, d) = 0 /\ ((d - 1) \div 7) = n - 1

\* the civil-time rule of the United States since 2007: daylight time from the second
\* Sunday of March, 02:00 EST, to the first Sunday of November, 02:00 EDT
EasternOffsetAt(u) ==
    IF /\ ~Before(u, <<u[1], 3, NthSunday(u[1], 3, 2), 7, 0, 0>>)
       /\ Before(u, <<u[1], 11, NthSunday(u[1], 11, 1), 6, 0, 0>>)
    THEN -14400 ELSE -18000

RuleOffset(zone, u) == IF zone = "UTC" THEN 0 ELSE EasternOffsetAt(u)

\* the instants (as UTC date-times) at which the clocks of zone show dt
Instants(dt, zone) ==
    {x.u.dt : x \in {y \in {[o |-> o, u |-> AddSeconds(dt, 0 - o)] :
                                o \in IF zone = "UTC" THEN {0} ELSE {-14400, -18000}} :
                        y.u.ok /\ RuleOffset(zone, y.u.dt) = y.o}}

\* what the clocks of tgt show at those instants: [ok, dt]
SameInstant(dt, src, tgt) ==
    {AddSeconds(u, RuleOffset(tgt, u)) : u \in Instants(dt, src)}

NormDone == npc = "done"

WrittenValid == written.layout # 0 /\ ValidDateTime(written.dt)

ZonesKnown == source_timezone \in KnownZones /\ target_timezone \in KnownZones

----------------------------------------------------------------------------
(* C3 *)

\* first and second field of a slash-separated NN/NN/YYYY input
FirstField  == IF written.layout = 4 THEN written.dt[2] ELSE written.dt[3]
SecondField == IF written.layout = 4 THEN written.dt[3] ELSE written.dt[2]

\* C3: the five formats are tried in the order YYYY:MM:DD, YYYY-MM-DD, YYYY/MM/DD,
\* MM/DD/YYYY, DD/MM/YYYY and the first that parses is used: a valid date-time written
\* in one of the first three is read under that format; an input NN/NN/YYYY HH:MM:SS
\* whose first two fields are both at most 12 is read with the first field as the month
\* and the second as the day ("03/04/2023 10:00:00" is 4 March), and DD/MM/YYYY is used
\* only when the MM/DD/YYYY reading is no valid date.
C3_FormatOrder ==
    (npc \in {"convert", "done"} /\ WrittenValid) =>
        /\ dt_object.ok
        /\ written.layout \in {1, 2, 3} =>
              dt_object.fmt = written.layout /\ dt_object.dt = written.dt
        /\ (written.layout \in {4, 5} /\ FirstField <= 12 /\ SecondField <= 12) =>
              /\ dt_object.fmt = 4
              /\ dt_object.dt[2] = FirstField
              /\ dt_object.dt[3] = SecondField
        /\ dt_object.fmt = 5 =>
              ~ValidDateTime(<<written.dt[1], FirstField, SecondField, 0, 0, 0>>)
        /\ timestamp = AmbiguousInput => dt_object.dt = <<2023, 3, 4, 10, 0, 0>>

\* a date written day-first with a day of at most 12 has been read month-first
C3_Witness ==
    /\ NormDone
    /\ written.layout = 5
    /\ written.dt[3] <= 12
    /\ written.dt[3] # written.dt[2]
    /\ dt_object.fmt = 4
    /\ dt_object.dt[2] = written.dt[3]

----------------------------------------------------------------------------
(* C4 *)

\* C4: normalize_timestamp never raises to its caller: whatever the timestamp and the
\* two timezone names, it ends with a normalized string or with None; it returns None
\* when no format matches the whole string ("not-a-date") and when the source or the
\* target timezone name is not in the timezone database ("Mars/Phobos").
C4_NeverRaises ==
    /\ nresult.kind # "raised"
    /\ NormDone =>
          /\ nresult.kind \in {"value", "none"}
          /\ (\A k \in 1..Len(formats_to_try) : ~strptime(timestamp, formats_to_try[k]).ok)
                => nresult = None
          /\ timestamp = NotADate => nresult = None
          /\ (source_timezone \notin KnownZones \/ target_timezone \notin KnownZones)
                => nresult = None

\* a timestamp that parses, with a target timezone that does not exist, ended in None
C4_Witness ==
    /\ NormDone
    /\ dt_object.ok
    /\ source_timezone = "UTC"
    /\ target_timezone = "Mars/Phobos"
    /\ nresult = None

----------------------------------------------------------------------------
(* C9 *)

C9_InScope ==
    /\ WrittenValid
    /\ ZonesKnown
    /\ written.layout = 5 => written.dt[3] > 12
    /\ Instants(written.dt, source_timezone) # {}
    /\ source_timezone # "UTC" =>
          AddSeconds(written.dt, -86400).ok /\ AddSeconds(written.dt, 86400).ok
    /\ \A e \in SameInstant(written.dt, source_timezone, target_timezone) :
          e.ok /\ e.dt[1] >= 1000

----------------------------------------------------------------------------
(* The runs of main the properties speak of *)

ImageRun == disk0.exists /\ args.ext \in ImageExtensions
TextRun  == disk0.exists /\ args.ext \in TextExtensions

\* the image was opened and its EXIF dictionary read
TagsRead == ImageRun /\ disk0.fault = "none" /\ disk0.kind = "jpeg" /\ disk0.has_exif

\* the text was read and decoded
TextRead == TextRun /\ disk0.fault = "none" /\ disk0.kind = "text"

Returned == pc \in {"return", "exited"}

IsDateTag(t) == TagName(t.id) \in DateTags

Logged(msg, data) == \E i \in 1..Len(log) : log[i].msg = msg /\ log[i].data = data

----------------------------------------------------------------------------
(* C1 *)

\* C1: in a dry run neither processor writes: the file stays as it was, and once the
\* processor has returned with a non-empty staged set, that set is in the log.
C1_DryRunNeverWrites ==
    args.dry_run =>
        /\ disk = disk0
        /\ writes = <<>>
        /\ (Returned /\ DOMAIN updated_exif # {}) =>
              Logged("Dry run: EXIF data would be updated", updated_exif)
        /\ (Returned /\ DOMAIN replacements # {}) =>
              Logged("Dry run: timestamps would be normalized", replacements)

\* a dry run over an image staged two tags, one of them with a new value
C1_Witness ==
    /\ pc = "exited"
    /\ args.dry_run
    /\ Cardinality(DOMAIN updated_exif) >= 2
    /\ \E i \in 1..Len(disk0.tags) :
          /\ disk0.tags[i].id \in DOMAIN updated_exif
          /\ updated_exif[disk0.tags[i].id] # disk0.tags[i].val
    /\ disk = disk0

----------------------------------------------------------------------------
(* C2 *)

\* C2: the file is written at most once in a run, every write comes after the last
\* call of normalize_timestamp (no call follows a write), and while candidates are
\* still to be evaluated the file is as it was.
C2_WriteOnceAfterAll ==
    /\ Len(writes) <= 1
    /\ \A i \in 1..Len(writes) : writes[i] = calls
    /\ writes # <<>> => todo = <<>>
    /\ (todo # <<>> \/ pc \in {"img_open", "txt_open", "txt_scan"}) =>
          disk = disk0 /\ writes = <<>>

\* one date tag has been normalized and staged, others remain, the file is untouched
C2_Witness ==
    /\ pc = "img_loop"
    /\ ~args.dry_run
    /\ calls >= 1
    /\ \E i \in 1..Len(todo) : IsDateTag(todo[i])
    /\ \E i \in 1..Len(disk0.tags) :
          /\ disk0.tags[i].id \in DOMAIN updated_exif
          /\ updated_exif[disk0.tags[i].id] # disk0.tags[i].val
    /\ disk = disk0

----------------------------------------------------------------------------
(* C5 *)

\* C5 as stated: when the token 2023-06-15 occurs more than once in a text file that
\* is processed without dry run, the token is normalized, the mapping is recorded and
\* the content written has every occurrence replaced by the normalized text.
C5_GlobalReplacement ==
    (/\ pc = "exited"
     /\ TextRead
     /\ ~args.dry_run
     /\ args.timezone \in KnownZones
     /\ Cardinality({i \in 1..Len(Words(disk0.content)) :
                        Words(disk0.content)[i] = DateOnlyToken}) >= 2)
    => /\ DateOnlyToken \in DOMAIN replacements
       /\ Len(writes) = 1
       /\ disk.content = Replace(disk0.content, DateOnlyToken, replacements[DateOnlyToken])

----------------------------------------------------------------------------
(* C6 *)

\* C6 as stated: when a date tag was staged and dry_run is false, the image is
\* written back, with exactly the staged tag ids set to their normalized values and
\* every other tag unchanged.
C6_ImageWriteBack ==
    (pc = "exited" /\ TagsRead /\ ~args.dry_run /\ DOMAIN updated_exif # {})
    => /\ Len(writes) = 1
       /\ disk.tags = ApplyStaged(disk0.tags, updated_exif)

----------------------------------------------------------------------------
(* C7 *)

\* C7: main exits non-zero exactly when the path does not exist or an exception
\* escapes the dispatch; every other run exits zero (unsupported extension, no
\* metadata, no candidates, every normalization failing, a failure caught inside a
\* processor), and after a failure caught inside a processor the file is unwritten.
C7_ExitStatus ==
    /\ pc # "exited" => exit_code = -1
    /\ pc = "exited" =>
          /\ exit_code \in {0, 1}
          /\ exit_code # 0 <=> (~disk0.exists \/ caught.at = "main")
          /\ caught.at = "processor" => (writes = <<>> /\ disk = disk0)

\* the write-back of an image failed inside the processor; main still exited zero
C7_Witness ==
    /\ pc = "exited"
    /\ caught.at = "processor"
    /\ caught.exc = "AttributeError"
    /\ exit_code = 0
    /\ writes = <<>>

----------------------------------------------------------------------------
(* C8 *)

\* C8: in process_image_file, for every tag set in every order, a date tag whose
\* normalization fails is not staged and keeps its value, every date tag whose
\* normalization succeeds is staged with the normalized value, and every date tag is
\* evaluated when process_image_file returns: a failure never ends the loop.
C8_LocalFailures ==
    /\ (pc = "img_loop" /\ TagsRead) =>
          calls + Cardinality({i \in 1..Len(todo) : IsDateTag(todo[i])})
             = Cardinality({i \in 1..Len(disk0.tags) : IsDateTag(disk0.tags[i])})
    /\ (pc = "return" /\ TagsRead) =>
          /\ calls = Cardinality({i \in 1..Len(disk0.tags) : IsDateTag(disk0.tags[i])})
          /\ \A i \in 1..Len(disk0.tags) :
                \E t \in {disk0.tags[i]} :
                \E r \in {normalize_timestamp(t.val, "UTC", args.timezone, padYear)} :
                   IF IsDateTag(t) /\ r.kind = "value"
                   THEN t.id \in DOMAIN updated_exif /\ updated_exif[t.id] = r.val
                   ELSE /\ t.id \notin DOMAIN updated_exif
                        /\ exif_data[i] = t
                        /\ disk.tags[i] = t

\* a date tag failed to normalize and a later date tag was staged all the same
C8_Witness ==
    /\ pc = "exited"
    /\ TagsRead
    /\ \E i, j \in 1..Len(disk0.tags) :
          /\ i < j
          /\ IsDateTag(disk0.tags[i])
          /\ disk0.tags[i].id \notin DOMAIN updated_exif
          /\ disk0.tags[j].id \in DOMAIN updated_exif

----------------------------------------------------------------------------
(* C10 *)

\* C10: process_text_file never writes, whatever the content, the target timezone and
\* dry_run: every candidate is a token without whitespace that the date-only pattern
\* accepts and none of the formats of normalize_timestamp does, so the replacement set
\* stays empty and a run that read the file ends on the no-op branch.
C10_TextNeverWrites ==
    args.ext \in TextExtensions =>
        /\ disk = disk0
        /\ writes = <<>>
        /\ DOMAIN replacements = {}
        /\ pc = "txt_loop" =>
              \A i \in 1..Len(todo) :
                 /\ \A j \in 1..Len(todo[i]) : todo[i][j] \notin Whitespace
                 /\ strptime(todo[i], CandidateFormat).ok
                 /\ normalize_timestamp(todo[i], "UTC", args.timezone, padYear) = None
        /\ (pc = "exited" /\ TextRead) =>
              log[Len(log)].msg = "No recognizable timestamps found or updated"

\* a text with two candidates was processed without dry run and is as it was
C10_Witness ==
    /\ pc = "exited"
    /\ TextRead
    /\ ~args.dry_run
    /\ args.timezone \in KnownZones
    /\ calls >= 2
    /\ disk = disk0

====
